---- MODULE Spec2Model ----
(***************************************************************************)
(* Model of src/app/main.py (image downloader web application).            *)
(*                                                                         *)
(* Strings are sequences of tokens.  A token is either one punctuation or  *)
(* whitespace character ("." "_" "-" " " "/" "!") or a non-empty run of    *)
(* ASCII letters/digits that is never split ("a", "jpg", "image", ...).    *)
(* No alphanumeric token is the concatenation of others, so two strings    *)
(* are equal exactly when their token sequences are equal.                 *)
(***************************************************************************)
EXTENDS Integers, Sequences, FiniteSets, TLC

\* ------------------------------------------------------------------------
\* Bounds of the model
\* ------------------------------------------------------------------------
MaxCalls == 3
MaxRows == 3
MaxFiles == 2
MaxRecords == 3
MaxJobs == 2
MaxRequests == 2
MaxBatches == 1
MaxPrepare == 1

\* Python's None for Optional[str] values (a token outside every alphabet).
None == <<"None">>

\* ------------------------------------------------------------------------
\* String helpers (Python str / pathlib semantics)
\* ------------------------------------------------------------------------
Punct == {".", "_", "-", " ", "/", "!"}

IsAlnum(c) == c \notin Punct

\* str.lower() on one token: only the upper-case tokens used below change.
LowerTok(c) ==
  CASE c = "SKU" -> "sku"
    [] c = "Sku" -> "sku"
    [] c = "PNG" -> "png"
    [] OTHER -> c

Lower(s) == [i \in 1..Len(s) |-> LowerTok(s[i])]

\* str.replace(old, new) for single characters.
Replace(s, old, new) == [i \in 1..Len(s) |-> IF s[i] = old THEN new ELSE s[i]]

RECURSIVE LStrip(_, _)
LStrip(s, chars) ==
  IF s # <<>> /\ Head(s) \in chars THEN LStrip(Tail(s), chars) ELSE s

RECURSIVE RStrip(_, _)
RStrip(s, chars) ==
  IF s # <<>> /\ s[Len(s)] \in chars
    THEN RStrip(SubSeq(s, 1, Len(s) - 1), chars)
    ELSE s

\* str.strip(chars); Strip(s, {" "}) is str.strip().
Strip(s, chars) == RStrip(LStrip(s, chars), chars)

\* "_".join(s.split()): leading/trailing whitespace dropped, every inner run
\* of whitespace replaced by one "_".
RECURSIVE JoinRuns(_)
JoinRuns(s) ==
  IF s = <<>> THEN <<>>
  ELSE IF Head(s) = " "
    THEN (IF Len(s) > 1 /\ s[2] = " " THEN JoinRuns(Tail(s))
          ELSE <<"_">> \o JoinRuns(Tail(s)))
    ELSE <<Head(s)>> \o JoinRuns(Tail(s))

SplitJoin(s) == JoinRuns(Strip(s, {" "}))

\* "-".join(filter(None, parts))
RECURSIVE JoinParts(_)
JoinParts(parts) ==
  IF parts = <<>> THEN <<>>
  ELSE IF Head(parts) = <<>> THEN JoinParts(Tail(parts))
  ELSE LET rest == JoinParts(Tail(parts))
       IN IF rest = <<>> THEN Head(parts) ELSE Head(parts) \o <<"-">> \o rest

\* Index of the last "." of a name, 0 if none (str.rfind + 1).
RECURSIVE RFindDot(_, _)
RFindDot(s, i) ==
  IF i = 0 THEN 0 ELSE IF s[i] = "." THEN i ELSE RFindDot(s, i - 1)

\* pathlib: the suffix starts at the last dot unless that dot is the first
\* or the last character of the name.
PathSuffix(name) ==
  LET i == RFindDot(name, Len(name))
  IN IF i > 1 /\ i < Len(name) THEN SubSeq(name, i, Len(name)) ELSE <<>>

PathStem(name) ==
  LET i == RFindDot(name, Len(name))
  IN IF i > 1 /\ i < Len(name) THEN SubSeq(name, 1, i - 1) ELSE name

\* Path(p).name: the part after the last "/".
RECURSIVE PathName(_)
PathName(p) ==
  IF p = <<>> THEN <<>>
  ELSE IF p[Len(p)] = "/" THEN PathName(SubSeq(p, 1, Len(p) - 1))
  ELSE LET RECURSIVE LastSlash(_)
           LastSlash(i) == IF i = 0 THEN 0
                           ELSE IF p[i] = "/" THEN i ELSE LastSlash(i - 1)
       IN SubSeq(p, LastSlash(Len(p)) + 1, Len(p))

\* werkzeug.utils.secure_filename: path separators become spaces, runs of
\* whitespace become "_", every character outside [A-Za-z0-9_.-] is removed,
\* and leading/trailing "." and "_" are stripped.
secure_filename(filename) ==
  LET spaced  == Replace(filename, "/", " ")
      joined  == SplitJoin(spaced)
      allowed == SelectSeq(joined, LAMBDA c : IsAlnum(c) \/ c \in {"_", ".", "-"})
  IN Strip(allowed, {".", "_"})

\* f"{counter}" for the counters the bounded model reaches.
Digits == <<"1", "2", "3", "4", "5", "6", "7", "8", "9">>

IMAGE_JPG == <<"image", ".", "jpg">>

\* FirstFree without the loop: the `_1` name, used or not.
FirstFree_noLoop(existing, stem, suffix, counter) ==
  stem \o <<"_", Digits[counter]>> \o suffix

\* Lines 87-92: the first counter whose name is unused.
RECURSIVE FirstFree(_, _, _, _)
FirstFree(existing, stem, suffix, counter) ==
  LET candidate == stem \o <<"_", Digits[counter]>> \o suffix
  IN IF candidate \notin existing THEN candidate
     ELSE FirstFree(existing, stem, suffix, counter + 1)

\* get_unique_path without the existence test: the sanitized name as it is.
get_unique_path_unchecked(existing, filename) ==
  IF secure_filename(filename) # <<>> THEN secure_filename(filename) ELSE IMAGE_JPG

\* get_unique_path(directory, filename), with `existing` the names present in
\* the directory at call time.
get_unique_path(existing, filename) ==
  LET safe_name == IF secure_filename(filename) # <<>>
                     THEN secure_filename(filename) ELSE IMAGE_JPG
      stem   == PathStem(safe_name)
      suffix == IF PathSuffix(safe_name) # <<>>
                  THEN PathSuffix(safe_name) ELSE <<".", "jpg">>
  IN IF safe_name \notin existing THEN safe_name
     ELSE FirstFree(existing, stem, suffix, 1)

sanitize_sku(value) ==
  IF value = None THEN None
  ELSE LET candidate == secure_filename(Strip(value, {" "}))
           cleaned   == Replace(candidate, "_", "-")
       IN IF cleaned # <<>> THEN cleaned ELSE None

build_output_filename(existing, source_name, extension, include_suffix, sku) ==
  LET base_name  == PathStem(source_name)
      normalized == sanitize_sku(sku)
      parts == IF include_suffix
                 THEN <<base_name>>
                      \o (IF normalized # None THEN <<normalized>> ELSE <<>>)
                      \o << <<"web">> >>
                 ELSE <<base_name>>
      candidate_name == JoinParts(parts)
      sanitized == Replace(secure_filename(candidate_name), "_", "-")
      safe_stem == IF sanitized # <<>> THEN sanitized ELSE <<"image">>
  IN get_unique_path(existing, safe_stem \o extension)

\* ------------------------------------------------------------------------
\* Directories and image conversion
\* ------------------------------------------------------------------------
\* A directory is a function from the names of its files to their contents.
\* A content records what Pillow makes of the bytes ("good": decodes;
\* "corrupt": Image.open/convert raises UnidentifiedImageError or OSError;
\* "bomb": Pillow raises another exception class, such as
\* DecompressionBombError or ValueError), whether the bytes are the original
\* ones or a JPEG written by convert_image_for_web, and the job the file
\* belongs to (0: the file was there before the batch).
Content(kind, enc, owner) == [kind |-> kind, enc |-> enc, owner |-> owner]

Put(d, name, content) ==
  [n \in (DOMAIN d) \cup {name} |-> IF n = name THEN content ELSE d[n]]

Remove(d, name) == [n \in (DOMAIN d) \ {name} |-> d[n]]

PNG == <<".", "png">>
JPG == <<".", "jpg">>

Returned(d, ret) == [dir |-> d, ret |-> ret, raised |-> FALSE]

\* KeepPngBranch without the enhance_filenames test: the kept PNG is always
\* renamed.
KeepPngBranch_alwaysRenames(d, image_path, enhance_filenames, sku, fault) ==
  LET target_path == build_output_filename(DOMAIN d, image_path, PNG, TRUE, sku)
  IN IF image_path \notin DOMAIN d \/ fault = "oserror"
       THEN Returned(d, None)
       ELSE Returned(Put(Remove(d, image_path), target_path, d[image_path]),
                     target_path)

\* Lines 159-172: a PNG that is kept.  With enhance_filenames the file is
\* renamed to a unique "-web" name (None when rename raises OSError: the
\* source is missing, or the I/O fault); otherwise nothing is touched.
KeepPngBranch(d, image_path, enhance_filenames, sku, fault) ==
  IF enhance_filenames
    THEN LET target_path ==
               build_output_filename(DOMAIN d, image_path, PNG, TRUE, sku)
         IN IF image_path \notin DOMAIN d \/ fault = "oserror"
              THEN Returned(d, None)
              ELSE Returned(Put(Remove(d, image_path), target_path, d[image_path]),
                            target_path)
    ELSE Returned(d, image_path)

\* DecodeBranch without the final unlink of the source.
DecodeBranch_keepsSource(d, image_path, quality, enhance_filenames, sku, fault) ==
  IF image_path \notin DOMAIN d THEN Returned(d, None)
  ELSE IF d[image_path].kind = "corrupt" THEN Returned(d, None)
  ELSE IF d[image_path].kind = "bomb"
    THEN [dir |-> d, ret |-> None, raised |-> TRUE]
  ELSE LET target_path ==
             build_output_filename(DOMAIN d, image_path, JPG,
                                   enhance_filenames, sku)
       IN IF fault = "oserror" THEN Returned(d, None)
          ELSE Returned(Put(d, target_path,
                            Content("good", <<"jpeg", quality>>,
                                    d[image_path].owner)),
                        target_path)

\* Lines 174-203: decode, flatten to RGB, save as JPEG under a unique name,
\* then delete the source when the target differs from it.
DecodeBranch(d, image_path, quality, enhance_filenames, sku, fault) ==
  IF image_path \notin DOMAIN d THEN Returned(d, None)
  ELSE IF d[image_path].kind = "corrupt" THEN Returned(d, None)
  ELSE IF d[image_path].kind = "bomb"
    THEN [dir |-> d, ret |-> None, raised |-> TRUE]
  ELSE LET target_path ==
             build_output_filename(DOMAIN d, image_path, JPG,
                                   enhance_filenames, sku)
           saved == Put(d, target_path,
                        Content("good", <<"jpeg", quality>>, d[image_path].owner))
       IN IF fault = "oserror" THEN Returned(d, None)
          ELSE IF target_path # image_path /\ image_path \in DOMAIN saved
            THEN Returned(Remove(saved, image_path), target_path)
            ELSE Returned(saved, target_path)

\* convert_image_for_web(image_path, quality=, keep_png=, enhance_filenames=,
\* sku=) run on directory d.  `fault` is the environment's choice of an I/O
\* error (OSError) in rename or save.  The result holds the directory
\* afterwards, the returned path (None for a reported failure) and whether an
\* exception left the function.
convert_image_for_web(d, image_path, quality, keep_png, enhance_filenames, sku, fault) ==
  LET suffix == Lower(PathSuffix(image_path))
      sku_fragment == IF enhance_filenames THEN sku ELSE None
  IN IF suffix = PNG /\ keep_png
       THEN KeepPngBranch(d, image_path, enhance_filenames, sku_fragment, fault)
       ELSE DecodeBranch(d, image_path, quality, enhance_filenames,
                         sku_fragment, fault)

\* ------------------------------------------------------------------------
\* State
\* ------------------------------------------------------------------------
VARIABLES
  \* get_unique_path, sanitize_sku, build_output_filename called directly
  ndir,       \* names present in directory D
  nname,      \* desired name N of the get_unique_path calls
  ncalls,     \* one record per get_unique_path(D, N) call, oldest first
  skuCall,    \* last sanitize_sku call: [arg, ret]
  buildCall,  \* last build_output_filename call: its arguments and result
  \* extract_image_records called directly
  csvHeader,  \* df.columns: the column names, in file order
  csvRows,    \* the data rows, in file order
  csvColumn,  \* the requested column
  csvResult,  \* what extract_image_records returned or raised
  \* convert_image_for_web called directly
  convCall,   \* the call's arguments, the directory before it and its result
  \* the web application
  dir,        \* the download folder: file name -> content
  csvStore,   \* names of the files in CSV_UPLOAD_FOLDER
  issued,     \* upload tokens handed out so far
  nreq,       \* number of requests started
  nbatch,     \* number of requests that reached the download / save loop
  req,        \* the request being served (NoReq when idle)
  records,    \* image_records (CSV request) or the uploaded files (upload)
  fetched,    \* outcome of each record handled so far by the download loop
  downloaded, \* download_images' `downloaded` / upload_images' `saved_paths`
  dlFailed,   \* download_images' `failed`: URLs
  upSkipped,  \* upload_images' `skipped` before conversion
  batchDir,   \* the folder as it was when post_process_files was entered
  reqDir,     \* the folder as it was when the request began
  faults,     \* the I/O fault the environment chose for each converted job
  results,    \* convert_image_for_web's return value for each converted job
  processed,  \* post_process_files' `processed`
  convFailed, \* post_process_files' `failed`
  response    \* the response to the last request that ended

namesVars == <<ndir, nname, ncalls, skuCall, buildCall>>

csvVars == <<csvHeader, csvRows, csvColumn, csvResult>>

loopVars == <<records, fetched, downloaded, dlFailed, upSkipped, batchDir, reqDir,
              faults, results, processed, convFailed>>

appVars == <<dir, csvStore, issued, nreq, nbatch, req, loopVars, response>>

vars == <<namesVars, csvVars, convCall, appVars>>

NoCall == [made |-> FALSE]

NoReq == [kind |-> "none"]

NoResponse == [endpoint |-> "none"]

EmptyDir == [n \in {} |-> Content("good", "orig", 0)]

NamesIdle ==
  /\ ndir = {}
  /\ nname = <<>>
  /\ ncalls = <<>>
  /\ skuCall = NoCall
  /\ buildCall = NoCall

CsvIdle ==
  /\ csvHeader = <<>>
  /\ csvRows = <<>>
  /\ csvColumn = <<>>
  /\ csvResult = NoCall

ConvIdle == convCall = NoCall

LoopIdle ==
  /\ records = <<>>
  /\ fetched = <<>>
  /\ downloaded = <<>>
  /\ dlFailed = <<>>
  /\ upSkipped = <<>>
  /\ batchDir = EmptyDir
  /\ reqDir = EmptyDir
  /\ faults = <<>>
  /\ results = <<>>
  /\ processed = <<>>
  /\ convFailed = <<>>

AppIdle ==
  /\ dir = EmptyDir
  /\ csvStore = {}
  /\ issued = {}
  /\ nreq = 0
  /\ nbatch = 0
  /\ req = NoReq
  /\ LoopIdle
  /\ response = NoResponse

\* ------------------------------------------------------------------------
\* File-name functions called directly
\* ------------------------------------------------------------------------
\* Desired names handed to get_unique_path.
DesiredNames ==
  { <<"a", ".", "jpg">>, <<"a">>, <<>>, <<"a", " ", "b", ".", "jpg">>,
    <<"!", ".", "jpg">>, <<"/", "a", ".", "png">> }

\* Files that may already be in the directory.
PreExisting ==
  { <<"a", ".", "jpg">>, <<"a", "_", "1", ".", "jpg">>, <<"a">>,
    <<"image", ".", "jpg">>, <<"a", "-", "web", ".", "jpg">> }

SkuChars == {"-", "_", ".", " ", "!", "s"}

\* SKU values: None, the empty string, and strings of one or two characters.
SkuInputs ==
  {None, <<>>} \cup {<<c>> : c \in SkuChars}
               \cup {<<c, d>> : c \in SkuChars, d \in SkuChars}

NamesInit ==
  /\ CsvIdle /\ ConvIdle /\ AppIdle
  /\ ndir \in SUBSET PreExisting
  /\ Cardinality(ndir) <= 2
  /\ nname \in DesiredNames
  /\ ncalls = <<>>
  /\ skuCall = NoCall
  /\ buildCall = NoCall

\* One call get_unique_path(D, N); nothing is created by the call itself.
CallUnique ==
  /\ Len(ncalls) < MaxCalls
  /\ ncalls' = Append(ncalls, [dirAt   |-> ndir,
                               ret     |-> get_unique_path(ndir, nname),
                               created |-> FALSE])
  /\ UNCHANGED <<ndir, nname, skuCall, buildCall, csvVars, convCall, appVars>>

\* The caller creates the file the last call returned.
CreateReturned ==
  /\ ncalls # <<>>
  /\ ~ncalls[Len(ncalls)].created
  /\ ndir' = ndir \cup {ncalls[Len(ncalls)].ret}
  /\ ncalls' = [ncalls EXCEPT ![Len(ncalls)].created = TRUE]
  /\ UNCHANGED <<nname, skuCall, buildCall, csvVars, convCall, appVars>>

NamesNext == CallUnique \/ CreateReturned

SpecNames == NamesInit /\ [][NamesNext]_vars

\* sanitize_sku and build_output_filename called directly.
SkuInit ==
  /\ CsvIdle /\ ConvIdle /\ AppIdle
  /\ ndir \in SUBSET PreExisting
  /\ Cardinality(ndir) <= 2
  /\ nname = <<>>
  /\ ncalls = <<>>
  /\ skuCall = NoCall
  /\ buildCall = NoCall

CallSanitize ==
  \E sku \in SkuInputs :
    /\ ~skuCall.made /\ ~buildCall.made
    /\ skuCall' = [made |-> TRUE, arg |-> sku, ret |-> sanitize_sku(sku)]
    /\ buildCall' = NoCall
    /\ UNCHANGED <<ndir, nname, ncalls, csvVars, convCall, appVars>>

CallBuild ==
  \E sku \in SkuInputs, inc \in BOOLEAN,
     ext \in {<<".", "jpg">>, <<".", "png">>},
     src \in {<<"a", ".", "png">>, <<"a", "_", "1", ".", "jpg">>} :
    /\ ~skuCall.made /\ ~buildCall.made
    /\ buildCall' = [made |-> TRUE, dirAt |-> ndir, src |-> src, ext |-> ext,
                     include_suffix |-> inc, sku |-> sku,
                     ret |-> build_output_filename(ndir, src, ext, inc, sku)]
    /\ skuCall' = NoCall
    /\ UNCHANGED <<ndir, nname, ncalls, csvVars, convCall, appVars>>

SkuNext == CallSanitize \/ CallBuild

SpecSku == SkuInit /\ [][SkuNext]_vars

\* ------------------------------------------------------------------------
\* CSV record extraction
\* ------------------------------------------------------------------------
\* pandas' missing value.
NaN == <<"NaN">>

DEFAULT_CSV_COLUMN == <<"1000image">>

\* Column names; " sku" has a leading blank, as in a header "1000image, sku".
ColSku == <<"sku">>
ColSKU == <<"SKU">>
ColPaddedSku == <<" ", "sku">>
ColOther == <<"x">>

Headers ==
  { <<DEFAULT_CSV_COLUMN, ColSku>>,
    <<DEFAULT_CSV_COLUMN>>,
    <<DEFAULT_CSV_COLUMN, ColPaddedSku>>,
    <<ColSKU, DEFAULT_CSV_COLUMN, ColSku>>,
    <<DEFAULT_CSV_COLUMN, ColPaddedSku, ColSku>>,
    <<ColOther, ColSku>> }

UrlKinds == {"nan", "empty", "blank", "url", "padded"}
SkuKinds == {"nan", "blank", "padded"}

\* The cell of the requested column in data row k.
UrlCell(kind, k) ==
  CASE kind = "nan"    -> NaN
    [] kind = "empty"  -> <<>>
    [] kind = "blank"  -> <<" ">>
    [] kind = "url"    -> <<"u", Digits[k]>>
    [] kind = "padded" -> <<" ", "u", Digits[k], " ">>

\* The cell of any other column j.
SkuCell(kind, j) ==
  CASE kind = "nan"    -> NaN
    [] kind = "blank"  -> <<" ">>
    [] kind = "padded" -> <<" ", "S", Digits[j], " ">>

Range(f) == {f[i] : i \in DOMAIN f}

\* row[name] for a data row: rows are functions from column positions to cells.
CellAt(header, row, name) ==
  row[CHOOSE j \in DOMAIN header : header[j] = name]

\* FindSkuColumn comparing the lower-cased names without stripping them.
FindSkuColumn_noStrip(header, j) ==
  LET hits == {i \in j..Len(header) : Lower(header[i]) = <<"sku">>}
  IN IF hits = {} THEN 0 ELSE CHOOSE i \in hits : \A h \in hits : i <= h

\* Lines 275-280: the first column whose stripped, lower-cased name is "sku"
\* (0 when there is none).
RECURSIVE FindSkuColumn(_, _)
FindSkuColumn(header, j) ==
  IF j > Len(header) THEN 0
  ELSE IF Lower(Strip(header[j], {" "})) = <<"sku">> THEN j
  ELSE FindSkuColumn(header, j + 1)

\* Lines 282-295: the loop over df.iterrows().
RECURSIVE CollectRecords(_, _, _, _)
CollectRecords(header, rows, column, sku_column) ==
  IF rows = <<>> THEN <<>>
  ELSE LET row     == Head(rows)
           raw_url == CellAt(header, row, column)
           url     == Strip(raw_url, {" "})
           raw_sku == IF sku_column = 0 THEN NaN ELSE row[sku_column]
           sku_value == IF sku_column # 0 /\ raw_sku # NaN
                          THEN Strip(raw_sku, {" "}) ELSE None
           rest == CollectRecords(header, Tail(rows), column, sku_column)
       IN IF raw_url = NaN THEN rest
          ELSE IF url = <<>> THEN rest
          ELSE <<[url |-> url, sku |-> sku_value]>> \o rest

extract_image_records(header, rows, column) ==
  IF column \notin Range(header)
    THEN [made |-> TRUE, error |-> "ValueError", records |-> <<>>, sku_column |-> 0]
    ELSE LET sku_column == FindSkuColumn(header, 1)
         IN [made |-> TRUE, error |-> "none",
             records |-> CollectRecords(header, rows, column, sku_column),
             sku_column |-> sku_column]

CsvInit ==
  /\ NamesIdle /\ ConvIdle /\ AppIdle
  /\ csvHeader \in Headers
  /\ csvColumn \in {DEFAULT_CSV_COLUMN, ColSku}
  /\ csvRows = <<>>
  /\ csvResult = NoCall

\* One more data row in the CSV file (before it is read).
AddRow ==
  \E uk \in UrlKinds, sk \in SkuKinds :
    /\ ~csvResult.made
    /\ Len(csvRows) < MaxRows
    /\ csvRows' = Append(csvRows,
         [j \in DOMAIN csvHeader |->
            IF csvHeader[j] = csvColumn
              THEN UrlCell(uk, Len(csvRows) + 1)
              ELSE SkuCell(sk, j)])
    /\ UNCHANGED <<csvHeader, csvColumn, csvResult, namesVars, convCall, appVars>>

Extract ==
  /\ ~csvResult.made
  /\ csvResult' = extract_image_records(csvHeader, csvRows, csvColumn)
  /\ UNCHANGED <<csvHeader, csvRows, csvColumn, namesVars, convCall, appVars>>

CsvNext == AddRow \/ Extract

SpecCsv == CsvInit /\ [][CsvNext]_vars

\* ------------------------------------------------------------------------
\* convert_image_for_web called directly
\* ------------------------------------------------------------------------
Kinds == {"good", "corrupt", "bomb"}

Faults == {"none", "oserror"}

DEFAULT_QUALITY == 95

\* Files the folder may hold before the call; any of them may be the source.
ConvFiles ==
  { <<"a", ".", "png">>, <<"a", ".", "PNG">>, <<"a", ".", "jpg">>,
    <<"a", "_", "1", ".", "jpg">>, <<"a", "-", "web", ".", "png">> }

ConvInit ==
  /\ NamesIdle /\ CsvIdle
  /\ convCall = NoCall
  /\ \E S \in SUBSET ConvFiles :
       /\ Cardinality(S) <= MaxFiles
       /\ dir \in [S -> {Content(k, "orig", 0) : k \in Kinds}]
  /\ csvStore = {} /\ issued = {} /\ nreq = 0 /\ nbatch = 0 /\ req = NoReq
  /\ LoopIdle
  /\ response = NoResponse

CallConvert ==
  \E image_path \in ConvFiles, quality \in {1, DEFAULT_QUALITY},
     keep_png \in BOOLEAN, enhance_filenames \in BOOLEAN,
     sku \in {None, <<"s">>, <<"-">>}, fault \in Faults :
    LET r == convert_image_for_web(dir, image_path, quality, keep_png,
                                   enhance_filenames, sku, fault)
    IN /\ ~convCall.made
       /\ convCall' = [made |-> TRUE, before |-> dir, image_path |-> image_path,
                       quality |-> quality, keep_png |-> keep_png,
                       enhance_filenames |-> enhance_filenames, sku |-> sku,
                       ret |-> r.ret, raised |-> r.raised]
       /\ dir' = r.dir
       /\ UNCHANGED <<namesVars, csvVars, csvStore, issued, nreq, nbatch, req,
                      loopVars, response>>

ConvNext == CallConvert

SpecConvert == ConvInit /\ [][ConvNext]_vars

\* ------------------------------------------------------------------------
\* The web application: /csv/prepare, /csv/process, /upload-images
\* ------------------------------------------------------------------------
\* URLs are "host" "/" path...; what each one serves is fixed.
URL_JPG == <<"x", "/", "a", ".", "jpg">>
URL_PNG == <<"x", "/", "a", ".", "png">>
URL_BADPNG == <<"y", "/", "a", ".", "png">>
URL_BOMB == <<"y", "/">>

Urls == {URL_JPG, URL_PNG, URL_BADPNG, URL_BOMB}

BodyKind(url) ==
  CASE url = URL_BADPNG -> "corrupt"
    [] url = URL_BOMB   -> "bomb"
    [] OTHER            -> "good"

\* urlparse(url).path: everything from the first "/" on.
RECURSIVE UrlPath(_)
UrlPath(url) ==
  IF url = <<>> THEN <<>>
  ELSE IF Head(url) = "/" THEN url ELSE UrlPath(Tail(url))

\* The rows of a CSV with a SKU column, and of one without.
RecordsWithSku ==
  { [url |-> URL_JPG, sku |-> <<"s">>], [url |-> URL_PNG, sku |-> None],
    [url |-> URL_BADPNG, sku |-> <<"-">>], [url |-> URL_BOMB, sku |-> <<"s">>] }

RecordsNoSku == {[url |-> u, sku |-> None] : u \in Urls}

SeqsUpTo(S, n) == UNION {[1..k -> S] : k \in 1..n}

\* What extract_image_records makes of the stored CSV and the column asked.
Extractions ==
  {[error |-> e, records |-> <<>>, sku_column |-> FALSE] :
     e \in {"ValueError", "Exception"}}
    \cup {[error |-> "none", records |-> <<>>, sku_column |-> b] : b \in BOOLEAN}
    \cup {[error |-> "none", records |-> rs, sku_column |-> TRUE] :
            rs \in SeqsUpTo(RecordsWithSku, MaxJobs)}
    \cup {[error |-> "none", records |-> rs, sku_column |-> FALSE] :
            rs \in SeqsUpTo(RecordsNoSku, MaxJobs)}

\* secrets.token_urlsafe draws from [A-Za-z0-9_-]; all tokens have one length.
TokenPool == {<<"t", "1">>, <<"_", "2">>}

\* Tokens a /csv/process request may carry (the empty one: no token).
RequestTokens == TokenPool \cup {<<>>}

CsvFile(token) == token \o <<".", "csv">>

ALLOWED_IMAGE_EXTENSIONS == {<<".", "jpg">>, <<".", "png">>}

\* Files a browser may send to /upload-images.
Uploads ==
  { [filename |-> <<"a", ".", "jpg">>, kind |-> "good"],
    [filename |-> <<"a", ".", "png">>, kind |-> "good"],
    [filename |-> <<"a", ".", "png">>, kind |-> "corrupt"],
    [filename |-> <<"b", ".", "txt">>, kind |-> "good"],
    [filename |-> <<>>, kind |-> "good"] }

\* Files that may be in the download folder before the first request.
InitialDirs ==
  { EmptyDir,
    [n \in {<<"a", ".", "jpg">>} |-> Content("good", "orig", 0)],
    [n \in {<<"a", ".", "jpg">>, <<"a", "_", "1", ".", "jpg">>} |->
       Content("good", "orig", 0)] }

AppInit ==
  /\ NamesIdle /\ CsvIdle /\ ConvIdle
  /\ dir \in InitialDirs
  /\ csvStore = {}
  /\ issued = {}
  /\ nreq = 0
  /\ nbatch = 0
  /\ req = NoReq
  /\ LoopIdle
  /\ response = NoResponse

Idle == req.kind = "none"

\* The job number that owns the file of record k of request number `no`.
Owner(no, k) == no * 10 + k

Respond(endpoint, status, resolved, note, proc, skipped) ==
  [endpoint |-> endpoint, status |-> status, resolved |-> resolved,
   note |-> note, processed |-> proc, skipped |-> skipped]

\* resolve_upload_token: the path the token stands for, None for
\* FileNotFoundError.
resolve_upload_token(store, token) ==
  LET safe_token == secure_filename(token)
  IN IF safe_token = <<>> THEN None
     ELSE IF CsvFile(safe_token) \notin store THEN None
     ELSE CsvFile(safe_token)

\* POST /csv/prepare: the upload is stored under a fresh token; when its
\* header cannot be listed the stored file is removed again.
PrepareCsv ==
  \E token \in TokenPool \ issued, readable \in BOOLEAN :
    /\ Idle
    /\ Cardinality(issued) < MaxPrepare
    /\ issued' = issued \cup {token}
    /\ csvStore' = IF readable THEN csvStore \cup {CsvFile(token)} ELSE csvStore
    /\ response' = Respond("prepare", IF readable THEN 200 ELSE 400, None,
                           "absent", <<>>, <<>>)
    /\ UNCHANGED <<namesVars, csvVars, convCall, dir, nreq, nbatch, req, loopVars>>

\* POST /csv/process, lines 374-387: no token, or resolve_upload_token raises
\* FileNotFoundError: HTTP 400 and nothing else happens.
ProcessCsvNotFound ==
  /\ Idle
  /\ nreq < MaxRequests
  /\ \E token \in RequestTokens :
       /\ token = <<>> \/ resolve_upload_token(csvStore, token) = None
       /\ nreq' = nreq + 1
       /\ response' = Respond("csv", 400, None, "absent", <<>>, <<>>)
       /\ UNCHANGED <<namesVars, csvVars, convCall, dir, csvStore, issued, nbatch,
                      req, loopVars>>

\* POST /csv/process, lines 389-401: extract_image_records raises or returns
\* no records: the stored CSV is unlinked and the request ends.
ProcessCsvInvalid ==
  /\ Idle
  /\ nreq < MaxRequests
  /\ \E token \in RequestTokens, x \in Extractions :
       LET csv_path == resolve_upload_token(csvStore, token)
       IN /\ token # <<>> /\ csv_path # None
          /\ x.error # "none" \/ x.records = <<>>
          /\ nreq' = nreq + 1
          /\ csvStore' = csvStore \ {csv_path}
          /\ response' = Respond("csv",
                                 IF x.error = "Exception" THEN 500 ELSE 400,
                                 csv_path, "absent", <<>>, <<>>)
          /\ UNCHANGED <<namesVars, csvVars, convCall, dir, issued, nbatch, req,
                         loopVars>>

\* POST /csv/process, lines 374-403: the token resolves and there are records;
\* download_images is about to run.
ProcessCsvBegin ==
  /\ Idle
  /\ nreq < MaxRequests
  /\ nbatch < MaxBatches
  /\ \E token \in RequestTokens, keep_png \in BOOLEAN,
        enhance_filenames \in BOOLEAN, x \in Extractions :
       LET csv_path == resolve_upload_token(csvStore, token)
       IN /\ token # <<>> /\ csv_path # None
          /\ x.error = "none" /\ x.records # <<>>
          /\ nreq' = nreq + 1
          /\ nbatch' = nbatch + 1
          /\ req' = [kind |-> "csv", no |-> nreq + 1, csv_path |-> csv_path,
                     quality |-> DEFAULT_QUALITY, keep_png |-> keep_png,
                     enhance_filenames |-> enhance_filenames,
                     sku_column |-> x.sku_column]
          /\ records' = x.records
          /\ fetched' = <<>> /\ downloaded' = <<>> /\ dlFailed' = <<>>
          /\ upSkipped' = <<>> /\ batchDir' = EmptyDir /\ reqDir' = dir
          /\ faults' = <<>> /\ results' = <<>>
          /\ processed' = <<>> /\ convFailed' = <<>>
          /\ UNCHANGED <<namesVars, csvVars, convCall, dir, csvStore, issued,
                         response>>

\* download_images: one iteration of the loop (lines 308-321).
Downloading == req.kind = "csv" /\ Len(fetched) < Len(records)

NextUrl == records[Len(fetched) + 1].url

NextTarget ==
  LET name == PathName(UrlPath(NextUrl))
  IN get_unique_path(DOMAIN dir, IF name # <<>> THEN name ELSE IMAGE_JPG)

\* The folder post_process_files will start from, once the loop is over.
EnterBatch(d) ==
  batchDir' = IF Len(fetched) + 1 = Len(records) THEN d ELSE batchDir

DownloadFrame ==
  UNCHANGED <<namesVars, csvVars, convCall, csvStore, issued, nreq, nbatch, req,
              records, upSkipped, reqDir, faults, results, processed, convFailed,
              response>>

\* The response is 2xx and its body is written to the target path.
DownloadOk ==
  /\ Downloading
  /\ dir' = Put(dir, NextTarget,
                Content(BodyKind(NextUrl), "orig", Owner(req.no, Len(fetched) + 1)))
  /\ downloaded' = Append(downloaded,
                          [path |-> NextTarget, sku |-> records[Len(fetched) + 1].sku])
  /\ fetched' = Append(fetched, "ok")
  /\ EnterBatch(dir')
  /\ UNCHANGED dlFailed
  /\ DownloadFrame

\* DownloadHttpError recording the derived file name instead of the URL.
DownloadHttpError_recordsFilename ==
  /\ Downloading
  /\ dlFailed' = Append(dlFailed, NextTarget)
  /\ fetched' = Append(fetched, "http")
  /\ EnterBatch(dir)
  /\ UNCHANGED <<dir, downloaded>>
  /\ DownloadFrame

\* requests.get raises (network, timeout) or raise_for_status raises (404).
DownloadHttpError ==
  /\ Downloading
  /\ dlFailed' = Append(dlFailed, NextUrl)
  /\ fetched' = Append(fetched, "http")
  /\ EnterBatch(dir)
  /\ UNCHANGED <<dir, downloaded>>
  /\ DownloadFrame

\* The target file is opened and writing it raises: a partial file is left.
DownloadIoError ==
  /\ Downloading
  /\ dir' = Put(dir, NextTarget,
                Content("corrupt", "orig", Owner(req.no, Len(fetched) + 1)))
  /\ dlFailed' = Append(dlFailed, NextUrl)
  /\ fetched' = Append(fetched, "io")
  /\ EnterBatch(dir')
  /\ UNCHANGED downloaded
  /\ DownloadFrame

\* append_result that forgets the failed job.
append_result_dropsFailure(lists, path, result) ==
  IF result # None
    THEN [processed |-> Append(lists.processed, result), failed |-> lists.failed]
    ELSE lists

\* post_process_files: lines 224-227, what one result adds to the two lists.
append_result(lists, path, result) ==
  IF result # None
    THEN [processed |-> Append(lists.processed, result), failed |-> lists.failed]
    ELSE [processed |-> lists.processed, failed |-> Append(lists.failed, path)]

Converting ==
  /\ req.kind \in {"csv", "images"}
  /\ Len(fetched) = Len(records)
  /\ Len(results) < Len(downloaded)

NextJob == downloaded[Len(results) + 1]

ConvertNext(fault) ==
  convert_image_for_web(dir, NextJob.path, req.quality, req.keep_png,
                        req.enhance_filenames, NextJob.sku, fault)

\* post_process_files: one iteration of the loop (lines 216-227) in which
\* convert_image_for_web returns.
ConvertJob ==
  \E fault \in Faults :
    LET r == ConvertNext(fault)
        lists == append_result([processed |-> processed, failed |-> convFailed],
                               NextJob.path, r.ret)
    IN /\ Converting
       /\ ~r.raised
       /\ dir' = r.dir
       /\ faults' = Append(faults, fault)
       /\ results' = Append(results, r.ret)
       /\ processed' = lists.processed
       /\ convFailed' = lists.failed
       /\ UNCHANGED <<namesVars, csvVars, convCall, csvStore, issued, nreq, nbatch,
                      req, records, fetched, downloaded, dlFailed, upSkipped,
                      batchDir, reqDir, response>>

\* An exception that convert_image_for_web does not catch leaves
\* post_process_files and the route handler: the request ends with HTTP 500
\* and nothing after line 405 (resp. 496) runs.
ConvertJobRaises ==
  \E fault \in Faults :
    LET r == ConvertNext(fault)
    IN /\ Converting
       /\ r.raised
       /\ response' = Respond(req.kind, 500,
                              IF req.kind = "csv" THEN req.csv_path ELSE None,
                              "absent", <<>>, <<>>)
       /\ req' = [req EXCEPT !.kind = "none"]
       /\ UNCHANGED <<namesVars, csvVars, convCall, dir, csvStore, issued, nreq,
                      nbatch, loopVars>>

AllConverted ==
  /\ Len(fetched) = Len(records)
  /\ Len(results) = Len(downloaded)

Skipped(why, items) == [i \in 1..Len(items) |-> [why |-> why, what |-> items[i]]]

\* Lines 412-417.
sku_was_applied(enhance_filenames, jobs) ==
  enhance_filenames /\ \E k \in 1..Len(jobs) : sanitize_sku(jobs[k].sku) # None

\* Lines 446-458: the `note` of a /csv/process response ("absent": no note).
csv_note(proc, enhance_filenames, sku_column, sku_applied) ==
  LET first == IF proc = <<>> THEN "verify" ELSE "absent"
  IN IF enhance_filenames /\ ~sku_column
       THEN (IF first = "absent" THEN "no-sku-column" ELSE first)
     ELSE IF enhance_filenames /\ ~sku_applied
       THEN (IF first = "absent" THEN "sku-invalid" ELSE first)
     ELSE first

\* Lines 526-531: the `note` of an /upload-images response.
upload_note(proc, skipped) ==
  IF skipped # <<>>
    THEN (IF proc # <<>> THEN "some-skipped" ELSE "all-failed")
    ELSE "absent"

\* POST /csv/process after post_process_files returned (lines 412-463).
ProcessCsvFinish ==
  /\ req.kind = "csv"
  /\ AllConverted
  /\ csvStore' = csvStore \ {req.csv_path}
  /\ response' =
       Respond("csv", 200, req.csv_path,
               csv_note(processed, req.enhance_filenames, req.sku_column,
                        sku_was_applied(req.enhance_filenames, downloaded)),
               processed,
               Skipped("download", dlFailed) \o Skipped("conversion", convFailed))
  /\ req' = [req EXCEPT !.kind = "none"]
  /\ UNCHANGED <<namesVars, csvVars, convCall, dir, issued, nreq, nbatch, loopVars>>

\* upload_images: the save loop (lines 482-494) over the files from position k.
RECURSIVE SaveUploads(_, _, _, _)
SaveUploads(acc, files, k, no) ==
  IF k > Len(files) THEN acc
  ELSE LET storage == files[k]
           extension == Lower(PathSuffix(storage.filename))
           destination == get_unique_path(DOMAIN acc.dir, storage.filename)
       IN IF storage.filename = <<>>
            THEN SaveUploads([acc EXCEPT
                                !.skipped = Append(@, [why |-> "unnamed",
                                                       what |-> <<>>]),
                                !.fetched = Append(@, "skipped")],
                             files, k + 1, no)
          ELSE IF extension \notin ALLOWED_IMAGE_EXTENSIONS
            THEN SaveUploads([acc EXCEPT
                                !.skipped = Append(@, [why |-> "unsupported",
                                                       what |-> storage.filename]),
                                !.fetched = Append(@, "skipped")],
                             files, k + 1, no)
          ELSE SaveUploads(
                 [acc EXCEPT
                    !.dir = Put(@, destination,
                                Content(storage.kind, "orig", Owner(no, k))),
                    !.saved = Append(@, [path |-> destination, sku |-> None]),
                    !.fetched = Append(@, "ok")],
                 files, k + 1, no)

\* POST /upload-images, lines 469-471: no files, HTTP 400.
UploadImagesEmpty ==
  /\ Idle
  /\ nreq < MaxRequests
  /\ nreq' = nreq + 1
  /\ response' = Respond("images", 400, None, "absent", <<>>, <<>>)
  /\ UNCHANGED <<namesVars, csvVars, convCall, dir, csvStore, issued, nbatch, req,
                 loopVars>>

\* POST /upload-images up to the call of post_process_files (lines 469-494).
UploadImagesBegin ==
  /\ Idle
  /\ nreq < MaxRequests
  /\ nbatch < MaxBatches
  /\ \E files \in SeqsUpTo(Uploads, MaxJobs),
        keep_png \in BOOLEAN, enhance_filenames \in BOOLEAN :
       LET s == SaveUploads([dir |-> dir, saved |-> <<>>, skipped |-> <<>>,
                             fetched |-> <<>>],
                            files, 1, nreq + 1)
       IN /\ nreq' = nreq + 1
          /\ nbatch' = nbatch + 1
          /\ req' = [kind |-> "images", no |-> nreq + 1,
                     quality |-> DEFAULT_QUALITY,
                     keep_png |-> keep_png,
                     enhance_filenames |-> enhance_filenames]
          /\ records' = files
          /\ fetched' = s.fetched
          /\ reqDir' = dir
          /\ dir' = s.dir
          /\ batchDir' = s.dir
          /\ downloaded' = s.saved
          /\ upSkipped' = s.skipped
          /\ dlFailed' = <<>> /\ faults' = <<>> /\ results' = <<>>
          /\ processed' = <<>> /\ convFailed' = <<>>
          /\ UNCHANGED <<namesVars, csvVars, convCall, csvStore, issued, response>>

\* POST /upload-images after post_process_files returned (lines 502-533).
UploadImagesFinish ==
  /\ req.kind = "images"
  /\ AllConverted
  /\ response' =
       LET skipped == upSkipped \o Skipped("conversion", convFailed)
       IN Respond("images", 200, None, upload_note(processed, skipped),
                  processed, skipped)
  /\ req' = [req EXCEPT !.kind = "none"]
  /\ UNCHANGED <<namesVars, csvVars, convCall, dir, csvStore, issued, nreq, nbatch,
                 loopVars>>

Next ==
  \/ PrepareCsv
  \/ ProcessCsvNotFound
  \/ ProcessCsvInvalid
  \/ ProcessCsvBegin
  \/ DownloadOk
  \/ DownloadHttpError
  \/ DownloadIoError
  \/ ConvertJob
  \/ ConvertJobRaises
  \/ ProcessCsvFinish
  \/ UploadImagesEmpty
  \/ UploadImagesBegin
  \/ UploadImagesFinish

Spec == AppInit /\ [][Next]_vars

\* download_images called directly on a list of records.
DownloadInit ==
  /\ NamesIdle /\ CsvIdle /\ ConvIdle
  /\ dir \in InitialDirs
  /\ csvStore = {} /\ issued = {} /\ nreq = 1 /\ nbatch = 1
  /\ req = [kind |-> "csv", no |-> 1, csv_path |-> None, quality |-> DEFAULT_QUALITY,
            keep_png |-> FALSE, enhance_filenames |-> FALSE, sku_column |-> TRUE]
  /\ records \in SeqsUpTo(RecordsWithSku, MaxRecords)
  /\ fetched = <<>> /\ downloaded = <<>> /\ dlFailed = <<>> /\ upSkipped = <<>>
  /\ batchDir = EmptyDir /\ reqDir = dir /\ faults = <<>> /\ results = <<>>
  /\ processed = <<>> /\ convFailed = <<>>
  /\ response = NoResponse

DownloadNext == DownloadOk \/ DownloadHttpError \/ DownloadIoError

SpecDownload == DownloadInit /\ [][DownloadNext]_vars

\* ------------------------------------------------------------------------
\* Properties of the file-name functions
\* ------------------------------------------------------------------------
\* The sanitized form of N that get_unique_path works from.
SafeName(n) == IF secure_filename(n) # <<>> THEN secure_filename(n) ELSE IMAGE_JPG

\* The name carrying counter j before the extension.
Numbered(n, j) ==
  PathStem(SafeName(n)) \o <<"_", Digits[j]>>
    \o (IF PathSuffix(SafeName(n)) # <<>> THEN PathSuffix(SafeName(n))
        ELSE <<".", "jpg">>)

\* C4 (as amended): every call get_unique_path(D, N) returns a name absent from
\* D at call time; a call that follows one whose returned file was not created
\* returns the same name; a call that follows one whose returned file was
\* created returns N's name with the smallest counter k >= 1 that is absent
\* from D, which is `_1` only when D held neither N's sanitized name nor its
\* `_1` name before the first call.
C4_UniquePath ==
  \A k \in 1..Len(ncalls) :
    /\ ncalls[k].ret \notin ncalls[k].dirAt
    /\ (k > 1 /\ ~ncalls[k - 1].created) => ncalls[k].ret = ncalls[k - 1].ret
    /\ (k > 1 /\ ncalls[k - 1].created) =>
         \E j \in 1..9 :
           /\ ncalls[k].ret = Numbered(nname, j)
           /\ \A i \in 1..(j - 1) : Numbered(nname, i) \in ncalls[k].dirAt
    /\ (k = 2 /\ ncalls[1].created /\ SafeName(nname) \notin ncalls[1].dirAt
          /\ Numbered(nname, 1) \notin ncalls[1].dirAt) =>
         ncalls[k].ret = Numbered(nname, 1)

\* C4 witness: three calls; the first file was created and the second call
\* returned the `_1` name, which was not created, so the third call repeats it.
C4_Witness ==
  /\ Len(ncalls) = 3
  /\ ncalls[1].created /\ ~ncalls[2].created
  /\ ncalls[2].ret = Numbered(nname, 1)
  /\ ncalls[3].ret = ncalls[2].ret

\* C4 as originally stated: after the first returned file has been created the
\* next call always returns the `_1` name, whatever D held.
C4_Original ==
  /\ \A k \in 1..Len(ncalls) : ncalls[k].ret \notin ncalls[k].dirAt
  /\ \A k \in 2..Len(ncalls) :
       ~ncalls[k - 1].created => ncalls[k].ret = ncalls[k - 1].ret
  /\ (Len(ncalls) >= 2 /\ ncalls[1].created) =>
       ncalls[2].ret = Numbered(nname, 1)

PunctOnly(s) == s # None /\ \A i \in 1..Len(s) : s[i] \in Punct

\* C9: sanitize_sku returns None for every SKU made only of punctuation and
\* whitespace (hyphens, underscores and dots included), so that
\* build_output_filename with include_suffix adds only "web" for such a SKU.
C9_PunctuationSkuIsNone ==
  /\ (skuCall.made /\ PunctOnly(skuCall.arg)) => skuCall.ret = None
  /\ (buildCall.made /\ buildCall.include_suffix /\ PunctOnly(buildCall.sku)) =>
       buildCall.ret = build_output_filename(buildCall.dirAt, buildCall.src,
                                             buildCall.ext, TRUE, None)

\* ------------------------------------------------------------------------
\* Properties of extract_image_records
\* ------------------------------------------------------------------------
\* The first column position whose name satisfies Match, 0 if none.
FirstColumn(header, Match(_)) ==
  IF \E j \in DOMAIN header : Match(header[j])
    THEN CHOOSE j \in DOMAIN header :
           Match(header[j]) /\ \A i \in 1..(j - 1) : ~Match(header[i])
    ELSE 0

\* Name equals "sku" ignoring case.
IsSkuIgnoringCase(name) == Lower(name) = <<"sku">>

\* Name equals "sku" ignoring case and surrounding whitespace.
IsSkuTrimmedIgnoringCase(name) == Lower(Strip(name, {" "})) = <<"sku">>

\* The records the claim describes, for a given choice of SKU column.
ExpectedRecords(header, rows, column, skuCol) ==
  LET Kept(row) == /\ CellAt(header, row, column) # NaN
                   /\ Strip(CellAt(header, row, column), {" "}) # <<>>
      kept == SelectSeq(rows, Kept)
  IN [i \in 1..Len(kept) |->
        [url |-> Strip(CellAt(header, kept[i], column), {" "}),
         sku |-> IF skuCol = 0 \/ kept[i][skuCol] = NaN
                   THEN None ELSE Strip(kept[i][skuCol], {" "})]]

ExtractMeets(Match(_)) ==
  csvResult.made =>
    IF csvColumn \in Range(csvHeader)
      THEN /\ csvResult.error = "none"
           /\ csvResult.records =
                ExpectedRecords(csvHeader, csvRows, csvColumn,
                                FirstColumn(csvHeader, Match))
      ELSE csvResult.error = "ValueError"

\* C8 (as amended): extract_image_records returns, in row order, one
\* (url, sku) record for each row whose value in the requested column is
\* neither NaN nor empty after trimming, and none for any other row; url is
\* the trimmed value and sku the trimmed value of the first column whose name,
\* after trimming surrounding whitespace, equals "sku" ignoring case (None if
\* that value is NaN or there is no such column); a requested column missing
\* from the header raises ValueError.
C8_ExtractRecords == ExtractMeets(IsSkuTrimmedIgnoringCase)

\* C8 as originally stated: the SKU column is the first whose name equals
\* "sku" ignoring case only.
C8_Original == ExtractMeets(IsSkuIgnoringCase)

\* C8 witness: header ["1000image", "sku"] and rows (url, S), ("", S),
\* (NaN, S) give exactly the one record of the first row.
C8_Witness ==
  /\ csvResult.made
  /\ csvHeader = <<DEFAULT_CSV_COLUMN, ColSku>>
  /\ csvColumn = DEFAULT_CSV_COLUMN
  /\ Len(csvRows) = 3
  /\ csvRows[1][1] = <<"u", "1">> /\ csvRows[1][2] # NaN
  /\ csvRows[2][1] = <<>> /\ csvRows[2][2] # NaN
  /\ csvRows[3][1] = NaN /\ csvRows[3][2] # NaN
  /\ csvResult.records = <<[url |-> <<"u", "1">>, sku |-> <<"S", "2">>]>>

\* ------------------------------------------------------------------------
\* Properties of convert_image_for_web
\* ------------------------------------------------------------------------
KeptPng(c) == Lower(PathSuffix(c.image_path)) = PNG /\ c.keep_png

\* C5: when convert_image_for_web returns a path for an input that takes the
\* decode/encode route (anything but a PNG with keep_png), that path ends in
\* .jpg and exists, it is the only name the call added to the folder, the
\* source no longer exists when the returned path differs from it, and every
\* other file is as it was; so a JPEG converted with keep_png = false leaves
\* one .jpg in place of the original.
C5_ConvertedReplacesSource ==
  (convCall.made /\ ~KeptPng(convCall) /\ convCall.ret # None) =>
    /\ ~convCall.raised
    /\ PathSuffix(convCall.ret) = JPG
    /\ convCall.ret \in DOMAIN dir
    /\ (DOMAIN dir) \ (DOMAIN convCall.before) = {convCall.ret}
    /\ convCall.ret # convCall.image_path => convCall.image_path \notin DOMAIN dir
    /\ \A n \in (DOMAIN convCall.before) \ {convCall.image_path} :
         n \in DOMAIN dir /\ dir[n] = convCall.before[n]
    /\ (PathSuffix(convCall.image_path) = JPG /\ ~convCall.keep_png) =>
         /\ convCall.image_path \notin DOMAIN dir
         /\ Cardinality(DOMAIN dir) = Cardinality(DOMAIN convCall.before)

\* C5 witness: a.jpg converted with keep_png = false comes back as a_1.jpg and
\* a.jpg is gone.
C5_Witness ==
  /\ convCall.made /\ ~convCall.keep_png
  /\ convCall.image_path = <<"a", ".", "jpg">>
  /\ convCall.ret = <<"a", "_", "1", ".", "jpg">>
  /\ <<"a", ".", "jpg">> \notin DOMAIN dir
  /\ convCall.ret \in DOMAIN dir

\* C7: convert_image_for_web on a .png file with keep_png = true and
\* enhance_filenames = false changes nothing, whatever the quality and the
\* sku: the folder is exactly as before (same names, same contents) and the
\* call returns the original path.
C7_KeptPngUntouched ==
  (convCall.made /\ KeptPng(convCall) /\ ~convCall.enhance_filenames) =>
    /\ ~convCall.raised
    /\ convCall.ret = convCall.image_path
    /\ dir = convCall.before

\* C7 witness: such a call on an existing (even undecodable) a.png, with a sku
\* and quality 1.
C7_Witness ==
  /\ convCall.made /\ convCall.keep_png /\ ~convCall.enhance_filenames
  /\ convCall.image_path = <<"a", ".", "png">>
  /\ convCall.image_path \in DOMAIN convCall.before
  /\ convCall.before[convCall.image_path].kind = "corrupt"
  /\ convCall.sku = <<"s">> /\ convCall.quality = 1
  /\ convCall.ret = convCall.image_path

\* ------------------------------------------------------------------------
\* Properties of download_images, post_process_files and the routes
\* ------------------------------------------------------------------------
Indices(n) == [k \in 1..n |-> k]

\* Positions of the records handled so far that were fetched / saved, and of
\* those that were not, in input order.
FetchedIdx == SelectSeq(Indices(Len(fetched)), LAMBDA k : fetched[k] = "ok")

UnfetchedIdx == SelectSeq(Indices(Len(fetched)), LAMBDA k : fetched[k] # "ok")

\* C2: in download_images every record handled so far is exactly once in
\* `downloaded` (its target path, which holds the body served for it, with
\* its sku) or in `failed` (its URL), both lists in input order; while
\* records remain, failed ones before them or not, the loop goes on.
C2_DownloadPartition ==
  /\ Len(downloaded) + Len(dlFailed) = Len(fetched)
  /\ Len(downloaded) = Len(FetchedIdx)
  /\ \A i \in 1..Len(downloaded) :
       /\ downloaded[i].sku = records[FetchedIdx[i]].sku
       /\ downloaded[i].path \in DOMAIN dir
       /\ dir[downloaded[i].path] =
            Content(BodyKind(records[FetchedIdx[i]].url), "orig",
                    Owner(req.no, FetchedIdx[i]))
  /\ dlFailed = [i \in 1..Len(UnfetchedIdx) |-> records[UnfetchedIdx[i]].url]
  /\ Len(fetched) < Len(records) => Downloading

\* C2 witness: three records, only the second fails with an HTTP error.
C2_Witness ==
  /\ Len(records) = 3
  /\ fetched = <<"ok", "http", "ok">>
  /\ Len(downloaded) = 2
  /\ downloaded[1].sku = records[1].sku /\ downloaded[2].sku = records[3].sku
  /\ dlFailed = <<records[2].url>>

\* Positions of the converted jobs that succeeded / failed, in job order.
DoneIdx == SelectSeq(Indices(Len(results)), LAMBDA k : results[k] # None)

FailedIdx == SelectSeq(Indices(Len(results)), LAMBDA k : results[k] = None)

\* Whether job k converts, judged from its own file as post_process_files
\* found it, the request's settings and the job's own I/O fault.
JobConverts(k) ==
  LET path == downloaded[k].path
  IN IF Lower(PathSuffix(path)) = PNG /\ req.keep_png
       THEN ~req.enhance_filenames \/ faults[k] = "none"
       ELSE batchDir[path].kind = "good" /\ faults[k] = "none"

BatchReturned ==
  /\ Idle
  /\ response.endpoint \in {"csv", "images"}
  /\ response.status = 200

CurrentFile(k) ==
  IF k <= Len(results) /\ results[k] # None THEN results[k] ELSE downloaded[k].path

\* C10: within one batch the paths in `downloaded` are pairwise distinct, the
\* names in `processed` are pairwise distinct and denote existing files, the
\* file of every job exists and still belongs to that job (no step overwrote
\* or deleted it for another job), and the files that were in the folder
\* before the request are untouched.
C10_NoCollisions ==
  /\ \A i, j \in 1..Len(downloaded) :
       i # j => downloaded[i].path # downloaded[j].path
  /\ \A i, j \in 1..Len(processed) : i # j => processed[i] # processed[j]
  /\ \A i \in 1..Len(processed) : processed[i] \in DOMAIN dir
  /\ Len(downloaded) = Len(FetchedIdx)
  /\ \A k \in 1..Len(downloaded) :
       /\ CurrentFile(k) \in DOMAIN dir
       /\ dir[CurrentFile(k)].owner = Owner(req.no, FetchedIdx[k])
  /\ \A n \in DOMAIN reqDir : n \in DOMAIN dir /\ dir[n] = reqDir[n]

\* C10 witness: a returned batch whose two downloads shared a base name with
\* each other and with a file already in the folder, both processed.
C10_Witness ==
  /\ BatchReturned /\ response.endpoint = "csv"
  /\ Len(records) = 2 /\ Len(processed) = 2
  /\ records[1].url = URL_JPG /\ records[2].url = URL_JPG
  /\ <<"a", ".", "jpg">> \in DOMAIN reqDir

\* C3: once a /csv/process request whose token resolved to a stored CSV has
\* ended, in whatever way, that file no longer exists.
C3_TokenSingleUse ==
  (Idle /\ response.endpoint = "csv" /\ response.resolved # None) =>
    response.resolved \notin csvStore

\* C6: a /csv/process or /upload-images response for a batch with no
\* successes, or with at least one skipped or failed item, has a `note`.
C6_NoteOnFailure ==
  (BatchReturned /\ (response.processed = <<>> \/ response.skipped # <<>>)) =>
    response.note # "absent"

====
